---------------------------- MODULE Spec2Model ----------------------------
(***************************************************************************)
(* Model of src/src/commands/permission.ts (PermissionUtil, the permission *)
(* store kept in permissions.json, and PermissionCommand, the grant/revoke *)
(* command handler) and of src/src/snoopbot/event.ts.                      *)
(***************************************************************************)
EXTENDS Integers, Sequences, FiniteSets, TLC

VARIABLES
    file,     \* content of src/snoopbot/lib/permissions.json
    pending,  \* per handler: the permission command suspended at getThreadInfo
    obs,      \* what the code that has just run did; NoObs in the event loop
    granted   \* the (thread, user, command) triples the persisted calls add up to

vars == <<file, pending, obs, granted>>

---------------------------------------------------------------------------
(* Bounds and input sets *)

\* longest command list handed to one store call
MaxCmds == 2
\* most command names kept in the document, all users together
MaxStored == 3

Threads == {"T1", "T2"}
Users == {"U1", "U2"}
\* the command names the store is called with directly
Names == {"meme", "ban"}

\* userID === threadAdmins.botOwner when the result has no botOwner field
Undefined == "undefined"

CommandLists == UNION {[1..n -> Names] : n \in 0..MaxCmds}

\* what AdminUtils.getThreadAdmins may return: {hasError, admins?, botOwner?}
AdminResults ==
    { [hasError |-> FALSE, admins |-> {}, botOwner |-> Undefined],
      [hasError |-> FALSE, admins |-> {"U1"}, botOwner |-> Undefined],
      [hasError |-> FALSE, admins |-> {}, botOwner |-> "U2"],
      [hasError |-> TRUE, admins |-> {"U1"}, botOwner |-> Undefined],
      [hasError |-> TRUE, admins |-> {}, botOwner |-> "U1"] }

---------------------------------------------------------------------------
(* JavaScript objects: a finite function from its own keys *)

EmptyObject == [k \in {} |-> {}]

\* obj[key] !== undefined
Has(obj, key) == key \in DOMAIN obj

\* obj[key] = value
Put(obj, key, value) ==
    [k \in (DOMAIN obj) \cup {key} |-> IF k = key THEN value ELSE obj[k]]

\* delete obj[key]
Delete(obj, key) == [k \in (DOMAIN obj) \ {key} |-> obj[k]]

\* Object.entries(obj).length
EntriesLength(obj) == Cardinality(DOMAIN obj)

\* array.includes(x)
Includes(array, x) == \E i \in 1..Len(array) : array[i] = x

\* a filter that drops only the first occurrence of each removed command
RECURSIVE FilterFirstOccurrence(_, _)
FilterFirstOccurrence(array, removed) ==
    IF array = <<>> THEN <<>>
    ELSE IF Includes(removed, Head(array))
         THEN LET rest == SelectSeq(removed, LAMBDA c : c # Head(array))
              IN  FilterFirstOccurrence(Tail(array), rest)
         ELSE <<Head(array)>> \o FilterFirstOccurrence(Tail(array), removed)

\* array.filter(x => !removed.includes(x))
RECURSIVE FilterNotIncluded(_, _)
FilterNotIncluded(array, removed) ==
    IF array = <<>> THEN <<>>
    ELSE IF Includes(removed, Head(array))
         THEN FilterNotIncluded(Tail(array), removed)
         ELSE <<Head(array)>> \o FilterNotIncluded(Tail(array), removed)

\* permissions[threadID].users[userID].permissions, <<>> where a level is absent
StoredPermsOf(permissions, threadID, userID) ==
    IF /\ Has(permissions, threadID)
       /\ Has(permissions[threadID], "users")
       /\ Has(permissions[threadID]["users"], userID)
       /\ Has(permissions[threadID]["users"][userID], "permissions")
    THEN permissions[threadID]["users"][userID]["permissions"]
    ELSE <<>>

---------------------------------------------------------------------------
(* PermissionUtil *)

\* the settings file as first created: an empty string
EmptyFile == [empty |-> TRUE, json |-> EmptyObject]

\* JSON.parse(jsonString === '' ? "{}" : jsonString)
getPermissionSettings(f) == IF f.empty THEN EmptyObject ELSE f.json

\* writeFileSync(..., JSON.stringify(newPermissionSettings))
savePermissionSettings(newPermissionSettings) ==
    [empty |-> FALSE, json |-> newPermissionSettings]

\* for (command of commands) count += perms.includes(command) ? 1 : 0
RECURSIVE CountIncluded(_, _)
CountIncluded(perms, commands) ==
    IF commands = <<>> THEN 0
    ELSE (IF Includes(perms, Head(commands)) THEN 1 ELSE 0)
         + CountIncluded(perms, Tail(commands))

\* userHasPermission with "any" in place of "every": count > 0
userHasPermissionAny(f, threadAdmins, threadID, userID, commands) ==
    LET permissions == getPermissionSettings(f)
        admins == IF threadAdmins.hasError THEN {} ELSE threadAdmins.admins
    IN  IF userID \in admins \/ userID = threadAdmins.botOwner
        THEN TRUE
        ELSE IF Has(permissions, threadID)
             THEN LET users == permissions[threadID]["users"]
                  IN  IF Has(users, userID)
                      THEN LET perms == users[userID]["permissions"]
                           IN  \/ Len(commands) = 0
                               \/ CountIncluded(perms, commands) > 0
                      ELSE FALSE
             ELSE FALSE

userHasPermission(f, threadAdmins, threadID, userID, commands) ==
    LET permissions == getPermissionSettings(f)
        admins == IF threadAdmins.hasError THEN {} ELSE threadAdmins.admins
    IN  IF userID \in admins \/ userID = threadAdmins.botOwner
        THEN TRUE
        ELSE IF Has(permissions, threadID)
             THEN LET users == permissions[threadID]["users"]
                  IN  IF Has(users, userID)
                      THEN LET perms == users[userID]["permissions"]
                           IN  CountIncluded(perms, commands) = Len(commands)
                      ELSE FALSE
             ELSE FALSE

\* addPermissionToUserInThread with concat in place of push: nothing is appended
addPermissionWithoutPush(f, threadAdmins, threadID, userID, commands) ==
    IF userHasPermission(f, threadAdmins, threadID, userID, commands)
    THEN [ret |-> FALSE, file |-> f]
    ELSE
      LET p0 == getPermissionSettings(f)
          thread0 == IF Has(p0, threadID) THEN p0[threadID] ELSE EmptyObject
          users0 == IF Has(thread0, "users") THEN thread0["users"] ELSE EmptyObject
          user0 == IF Has(users0, userID) THEN users0[userID] ELSE EmptyObject
          perms0 == IF Has(user0, "permissions") THEN user0["permissions"] ELSE <<>>
          user1 == Put(user0, "permissions", perms0)
          users1 == Put(users0, userID, user1)
          thread1 == Put(thread0, "users", users1)
      IN  [ret |-> TRUE, file |-> savePermissionSettings(Put(p0, threadID, thread1))]

\* addPermissionToUserInThread with the users mapping created anew on every call
addPermissionToFreshThread(f, threadAdmins, threadID, userID, commands) ==
    IF userHasPermission(f, threadAdmins, threadID, userID, commands)
    THEN [ret |-> FALSE, file |-> f]
    ELSE
      LET p0 == getPermissionSettings(f)
          perms0 == StoredPermsOf(p0, threadID, userID)
          user1 == Put(EmptyObject, "permissions", perms0 \o commands)
          thread1 == Put(EmptyObject, "users", Put(EmptyObject, userID, user1))
      IN  [ret |-> TRUE, file |-> savePermissionSettings(Put(p0, threadID, thread1))]

\* addPermissionToUserInThread without the check of userHasPermission
addPermissionUnchecked(f, threadAdmins, threadID, userID, commands) ==
    LET p0 == getPermissionSettings(f)
        perms0 == StoredPermsOf(p0, threadID, userID)
        thread0 == IF Has(p0, threadID) THEN p0[threadID] ELSE EmptyObject
        users0 == IF Has(thread0, "users") THEN thread0["users"] ELSE EmptyObject
        user1 == Put(EmptyObject, "permissions", perms0 \o commands)
        thread1 == Put(thread0, "users", Put(users0, userID, user1))
    IN  [ret |-> TRUE, file |-> savePermissionSettings(Put(p0, threadID, thread1))]

\* addPermissionToUserInThread appending only the commands not held yet
addPermissionDeduplicated(f, threadAdmins, threadID, userID, commands) ==
    IF userHasPermission(f, threadAdmins, threadID, userID, commands)
    THEN [ret |-> FALSE, file |-> f]
    ELSE
      LET p0 == getPermissionSettings(f)
          perms0 == StoredPermsOf(p0, threadID, userID)
          thread0 == IF Has(p0, threadID) THEN p0[threadID] ELSE EmptyObject
          users0 == IF Has(thread0, "users") THEN thread0["users"] ELSE EmptyObject
          fresh == SelectSeq(commands, LAMBDA c : ~Includes(perms0, c))
          user1 == Put(EmptyObject, "permissions", perms0 \o fresh)
          thread1 == Put(thread0, "users", Put(users0, userID, user1))
      IN  [ret |-> TRUE, file |-> savePermissionSettings(Put(p0, threadID, thread1))]

addPermissionToUserInThread(f, threadAdmins, threadID, userID, commands) ==
    IF userHasPermission(f, threadAdmins, threadID, userID, commands)
    THEN [ret |-> FALSE, file |-> f]
    ELSE
      LET p0 == getPermissionSettings(f)
          thread0 == IF Has(p0, threadID) THEN p0[threadID] ELSE EmptyObject
          users0 == IF Has(thread0, "users") THEN thread0["users"] ELSE EmptyObject
          user0 == IF Has(users0, userID) THEN users0[userID] ELSE EmptyObject
          perms0 == IF Has(user0, "permissions") THEN user0["permissions"] ELSE <<>>
          user1 == Put(user0, "permissions", perms0 \o commands)
          users1 == Put(users0, userID, user1)
          thread1 == Put(thread0, "users", users1)
      IN  [ret |-> TRUE, file |-> savePermissionSettings(Put(p0, threadID, thread1))]

\* removePermissionFromUserInThread keeping the requested commands, not the others
removePermissionInverted(f, threadID, userID, commands) ==
    LET permissions == getPermissionSettings(f)
    IN
    IF \/ ~Has(permissions, threadID)
       \/ ~Has(permissions[threadID], "users")
       \/ ~Has(permissions[threadID]["users"], userID)
       \/ ~Has(permissions[threadID]["users"][userID], "permissions")
    THEN [ret |-> FALSE, file |-> f]
    ELSE IF Len(permissions[threadID]["users"][userID]["permissions"]) = 0
    THEN [ret |-> TRUE, file |-> f]
    ELSE
      LET thread0 == permissions[threadID]
          users0 == thread0["users"]
          userGrantedPerms == users0[userID]["permissions"]
          user1 == Put(users0[userID], "permissions",
                       SelectSeq(userGrantedPerms, LAMBDA c : Includes(commands, c)))
          users1 == IF Len(user1["permissions"]) = 0
                    THEN Delete(users0, userID)
                    ELSE Put(users0, userID, user1)
          thread1 == IF EntriesLength(users1) = 0
                     THEN Delete(thread0, "users")
                     ELSE Put(thread0, "users", users1)
          p1 == IF EntriesLength(thread1) = 0
                THEN Delete(permissions, threadID)
                ELSE Put(permissions, threadID, thread1)
      IN  [ret |-> TRUE, file |-> savePermissionSettings(p1)]

\* removePermissionFromUserInThread with the early return for an empty
\* permissions collection left out: the empty record is pruned and saved
removePermissionPruningEmpty(f, threadID, userID, commands) ==
    LET permissions == getPermissionSettings(f)
    IN
    IF \/ ~Has(permissions, threadID)
       \/ ~Has(permissions[threadID], "users")
       \/ ~Has(permissions[threadID]["users"], userID)
       \/ ~Has(permissions[threadID]["users"][userID], "permissions")
    THEN [ret |-> FALSE, file |-> f]
    ELSE
      LET thread0 == permissions[threadID]
          users0 == thread0["users"]
          userGrantedPerms == users0[userID]["permissions"]
          user1 == Put(users0[userID], "permissions",
                       FilterNotIncluded(userGrantedPerms, commands))
          users1 == IF Len(user1["permissions"]) = 0
                    THEN Delete(users0, userID)
                    ELSE Put(users0, userID, user1)
          thread1 == IF EntriesLength(users1) = 0
                     THEN Delete(thread0, "users")
                     ELSE Put(thread0, "users", users1)
          p1 == IF EntriesLength(thread1) = 0
                THEN Delete(permissions, threadID)
                ELSE Put(permissions, threadID, thread1)
      IN  [ret |-> TRUE, file |-> savePermissionSettings(p1)]

\* removePermissionFromUserInThread deleting the whole Thread Record as soon
\* as the user's permissions collection becomes empty
removePermissionDroppingThread(f, threadID, userID, commands) ==
    LET permissions == getPermissionSettings(f)
    IN
    IF \/ ~Has(permissions, threadID)
       \/ ~Has(permissions[threadID], "users")
       \/ ~Has(permissions[threadID]["users"], userID)
       \/ ~Has(permissions[threadID]["users"][userID], "permissions")
    THEN [ret |-> FALSE, file |-> f]
    ELSE IF Len(permissions[threadID]["users"][userID]["permissions"]) = 0
    THEN [ret |-> TRUE, file |-> f]
    ELSE
      LET thread0 == permissions[threadID]
          users0 == thread0["users"]
          userGrantedPerms == users0[userID]["permissions"]
          user1 == Put(users0[userID], "permissions",
                       FilterNotIncluded(userGrantedPerms, commands))
          p1 == IF Len(user1["permissions"]) = 0
                THEN Delete(permissions, threadID)
                ELSE Put(permissions, threadID,
                         Put(thread0, "users", Put(users0, userID, user1)))
      IN  [ret |-> TRUE, file |-> savePermissionSettings(p1)]

removePermissionFromUserInThread(f, threadID, userID, commands) ==
    LET permissions == getPermissionSettings(f)
    IN
    IF \/ ~Has(permissions, threadID)
       \/ ~Has(permissions[threadID], "users")
       \/ ~Has(permissions[threadID]["users"], userID)
       \/ ~Has(permissions[threadID]["users"][userID], "permissions")
    THEN [ret |-> FALSE, file |-> f]
    ELSE IF Len(permissions[threadID]["users"][userID]["permissions"]) = 0
    THEN [ret |-> TRUE, file |-> f]
    ELSE
      LET thread0 == permissions[threadID]
          users0 == thread0["users"]
          userGrantedPerms == users0[userID]["permissions"]
          user1 == Put(users0[userID], "permissions",
                       FilterNotIncluded(userGrantedPerms, commands))
          users1 == IF Len(user1["permissions"]) = 0
                    THEN Delete(users0, userID)
                    ELSE Put(users0, userID, user1)
          thread1 == IF EntriesLength(users1) = 0
                     THEN Delete(thread0, "users")
                     ELSE Put(thread0, "users", users1)
          p1 == IF EntriesLength(thread1) = 0
                THEN Delete(permissions, threadID)
                ELSE Put(permissions, threadID, thread1)
      IN  [ret |-> TRUE, file |-> savePermissionSettings(p1)]

---------------------------------------------------------------------------
(* Reading a document *)

\* the user's stored permissions sequence, <<>> when there is no record
StoredPerms(f, threadID, userID) ==
    StoredPermsOf(getPermissionSettings(f), threadID, userID)

HasRecord(f, threadID, userID) ==
    LET permissions == getPermissionSettings(f)
    IN  /\ Has(permissions, threadID)
        /\ Has(permissions[threadID], "users")
        /\ Has(permissions[threadID]["users"], userID)

HasThread(f, threadID) == Has(getPermissionSettings(f), threadID)

\* the command names kept for the slots S (thread, user), duplicates counted
RECURSIVE StoredIn(_, _)
StoredIn(f, S) ==
    IF S = {} THEN 0
    ELSE LET p == CHOOSE q \in S : TRUE
         IN  Len(StoredPerms(f, p[1], p[2])) + StoredIn(f, S \ {p})

TotalStored(f) == StoredIn(f, Threads \X Users)

---------------------------------------------------------------------------
(* PermissionCommand *)

\* extras.commands: the registered commands
Commands ==
    << [name |-> "meme", adminOnly |-> FALSE],
       [name |-> "ban", adminOnly |-> TRUE] >>

\* commands.map((command) => command.name)
CommandNames == [i \in 1..Len(Commands) |-> Commands[i].name]

\* String.prototype.trim on the strings of the model
Trim(s) ==
    CASE s = " meme" -> "meme"
      [] s = " ban" -> "ban"
      [] s = " xyz" -> "xyz"
      [] OTHER -> s

\* matches[2].trim().split(','): the first entry has no leading blank
RequestLists ==
    { <<"all">>, <<"meme">>, <<"ban">>, <<"xyz">>,
      <<"meme", "ban">>, <<"meme", " ban">>, <<"meme", " xyz">>,
      <<"xyz", " meme">> }

\* event.mentions (its keys) and whether matches[0] contains "@all"
Targets ==
    { [mentions |-> {}, atAll |-> FALSE],
      [mentions |-> {}, atAll |-> TRUE],
      [mentions |-> {"U1"}, atAll |-> FALSE],
      [mentions |-> {"U2"}, atAll |-> FALSE],
      [mentions |-> {"U1", "U2"}, atAll |-> TRUE] }

EventThreads == {"T1"}

Events ==
    { [action |-> a, threadID |-> t, commandsToGive |-> c,
       mentions |-> g.mentions, atAll |-> g.atAll] :
         a \in {"grant", "revoke"}, t \in EventThreads,
         c \in RequestLists, g \in Targets }
    \cup
    { [action |-> "list", threadID |-> t, commandsToGive |-> <<"meme">>,
       mentions |-> {}, atAll |-> FALSE] : t \in EventThreads }

\* the requests of two commands in flight together
RaceEvents ==
    { e \in Events : /\ e.commandsToGive \in {<<"meme">>, <<"meme", " xyz">>}
                     /\ e.mentions \in {{}, {"U1"}}
                     /\ e.action # "list" }

\* what api.getThreadInfo resolves to: participantIDs and the ids of userInfo
ThreadInfos ==
    { [participantIDs |-> p, userInfo |-> i] :
        p \in SUBSET Users, i \in SUBSET Users }

NoThreadInfo == [participantIDs |-> {}, userInfo |-> {}]

Handlers == {"h1", "h2"}

Idle == [pc |-> "idle"]

\* ResolveCommands without the expansion of "all"
ResolveCommandsLiteral(commandsToGive) == commandsToGive

\* if (commandsToGive[0] === "all") commandsToGive = commands.map(...)
ResolveCommands(commandsToGive) ==
    IF commandsToGive[1] = "all" THEN CommandNames ELSE commandsToGive

\* NoPerson with the test of "@all" the wrong way round
NoPersonInverted(event) == event.mentions = {} /\ event.atAll

\* Object.entries(persons).length === 0 && matches[0].indexOf("@all") === -1
NoPerson(event) == event.mentions = {} /\ ~event.atAll

\* HasCommands with every in place of some registered command not excluded
HasCommandsAlways(commandsToGive) == Len(commandsToGive) > 0

\* commands.some((command) => commandsToGive.includes(command.name))
HasCommands(commandsToGive) ==
    \E i \in 1..Len(Commands) : Includes(commandsToGive, Commands[i].name)

\* registry.filter((command) => command.adminOnly).map((command) => command.name)
RECURSIVE AdminOnlyNames(_)
AdminOnlyNames(registry) ==
    IF registry = <<>> THEN <<>>
    ELSE IF Head(registry).adminOnly
         THEN <<Head(registry).name>> \o AdminOnlyNames(Tail(registry))
         ELSE AdminOnlyNames(Tail(registry))

AdminCommands == AdminOnlyNames(Commands)

\* commandsToGive.filter(c => !adminCommands.includes(c)).map(c => c.trim())
Applied(commandsToGive) ==
    LET kept == FilterNotIncluded(commandsToGive, AdminCommands)
    IN  [i \in 1..Len(kept) |-> Trim(kept[i])]

\* the triples a persisted call adds to or takes from those granted so far
GrantedAfter(g, op, ret, threadID, userID, commands) ==
    LET triples == {<<threadID, userID, commands[i]>> : i \in 1..Len(commands)}
    IN  IF ~ret THEN g
        ELSE IF op = "add" THEN g \cup triples
        ELSE {x \in g : ~(x[1] = threadID /\ x[2] = userID
                          /\ Includes(commands, x[3]))}

\* PermissionUtil.addPermissionToUserInThread / removePermissionFromUserInThread
Mutate(op, f, threadAdmins, threadID, userID, commands) ==
    IF op = "add"
    THEN addPermissionToUserInThread(f, threadAdmins, threadID, userID, commands)
    ELSE removePermissionFromUserInThread(f, threadID, userID, commands)

\* for (let key in persons) PermissionUtil.<op>(event.threadID, key, ...commands)
RECURSIVE ForPersons(_, _, _, _, _, _)
ForPersons(persons, op, st, threadAdmins, threadID, commands) ==
    IF persons = {} THEN st
    ELSE LET key == CHOOSE k \in persons : TRUE
             r == Mutate(op, st.file, threadAdmins, threadID, key, commands)
             e == [type |-> "call", op |-> op, threadID |-> threadID,
                   userID |-> key, commands |-> commands, ret |-> r.ret]
         IN  ForPersons(persons \ {key}, op,
                        [file |-> r.file,
                         effects |-> Append(st.effects, e),
                         granted |-> GrantedAfter(st.granted, op, r.ret,
                                                  threadID, key, commands)],
                        threadAdmins, threadID, commands)

Send(kind, mentions, commands) ==
    [type |-> "send", kind |-> kind, mentions |-> mentions, commands |-> commands]

\* grant / revoke from the check of the command names to the return
Finish(event, persons, st, threadAdmins) ==
    LET commandsToGive == ResolveCommands(event.commandsToGive)
        op == IF event.action = "grant" THEN "add" ELSE "remove"
    IN  IF ~HasCommands(commandsToGive)
        THEN [st EXCEPT !.effects =
                 Append(@, Send("unknown", {}, commandsToGive))]
        ELSE LET done == ForPersons(persons, op, st, threadAdmins,
                                    event.threadID, Applied(commandsToGive))
             IN  [done EXCEPT !.effects =
                     Append(@, Send("done", persons, Applied(commandsToGive)))]

\* execute, up to the first await or to the return
Begin(event, st, threadAdmins) ==
    IF event.action = "list"
    THEN [st EXCEPT !.effects = Append(@, Send("underDevelopment", {}, <<>>))]
    ELSE IF event.mentions = {}
    THEN IF NoPerson(event)
         THEN [st EXCEPT !.effects = Append(@, Send("noPerson", {}, <<>>))]
         ELSE [st EXCEPT !.effects = Append(@, [type |-> "getThreadInfo",
                                                threadID |-> event.threadID])]
    ELSE Finish(event, event.mentions, st, threadAdmins)

\* whether execute is left waiting for api.getThreadInfo
Suspends(event) ==
    event.action # "list" /\ event.mentions = {} /\ ~NoPerson(event)

\* participantIDs.forEach: userInfo stays undefined for a participant without one
ThrowsOn(threadInfo) == ~(threadInfo.participantIDs \subseteq threadInfo.userInfo)

---------------------------------------------------------------------------
(* SnoopBotEvent *)

\* the types of the events a handler is bound to
EventTypes == {"message", "event", "message_reaction"}

Unimplemented == "SnoopBotEvent::onEvent() is unimplmented"

\* onEvent as a method with an empty body
onEventNoOp(event) == [threw |-> FALSE, message |-> ""]

\* async onEvent(event, api) { throw new Error("...") }
onEvent(event) == [threw |-> TRUE, message |-> Unimplemented]

---------------------------------------------------------------------------
(* Steps *)

NoObs == [kind |-> "none"]

Init ==
    /\ file \in {EmptyFile, savePermissionSettings(EmptyObject)}
    /\ pending = [h \in Handlers |-> Idle]
    /\ obs = NoObs
    /\ granted = {}

\* a direct call of PermissionUtil.addPermissionToUserInThread
Add(threadID, userID, commands, threadAdmins) ==
    LET r == addPermissionToUserInThread(file, threadAdmins, threadID, userID, commands)
    IN  /\ obs = NoObs
        /\ TotalStored(r.file) <= MaxStored
        /\ file' = r.file
        /\ granted' = GrantedAfter(granted, "add", r.ret, threadID, userID, commands)
        /\ obs' = [kind |-> "add", threadID |-> threadID, userID |-> userID,
                   commands |-> commands, threadAdmins |-> threadAdmins,
                   ret |-> r.ret, before |-> file]
        /\ UNCHANGED pending

\* a direct call of PermissionUtil.removePermissionFromUserInThread
Remove(threadID, userID, commands) ==
    LET r == removePermissionFromUserInThread(file, threadID, userID, commands)
    IN  /\ obs = NoObs
        /\ file' = r.file
        /\ granted' = GrantedAfter(granted, "remove", r.ret, threadID, userID, commands)
        /\ obs' = [kind |-> "remove", threadID |-> threadID, userID |-> userID,
                   commands |-> commands, ret |-> r.ret, before |-> file]
        /\ UNCHANGED pending

\* a direct call of PermissionUtil.userHasPermission
Check(threadID, userID, commands, threadAdmins) ==
    /\ obs = NoObs
    /\ obs' = [kind |-> "check", threadID |-> threadID, userID |-> userID,
               commands |-> commands, threadAdmins |-> threadAdmins,
               ret |-> userHasPermission(file, threadAdmins, threadID, userID, commands),
               before |-> file]
    /\ UNCHANGED <<file, pending, granted>>

\* control is back in the event loop
Return ==
    /\ obs # NoObs
    /\ obs' = NoObs
    /\ UNCHANGED <<file, pending, granted>>

\* handler h is left as self; a handler suspended on the same thread while the
\* document changes has been overtaken by the time it resumes
Handled(h, self, threadID, changed) ==
    [k \in Handlers |->
        IF k = h THEN self
        ELSE IF /\ pending[k] # Idle
                /\ pending[k].event.threadID = threadID
                /\ changed
             THEN [pending[k] EXCEPT !.overtaken = TRUE]
             ELSE pending[k]]

\* the dispatcher calls execute(matches, event, api, extras) on a free handler
Execute(h, event, threadAdmins) ==
    LET st == Begin(event, [file |-> file, effects |-> <<>>, granted |-> granted],
                    threadAdmins)
    IN  /\ obs = NoObs
        /\ pending[h] = Idle
        /\ TotalStored(st.file) <= MaxStored
        /\ file' = st.file
        /\ granted' = st.granted
        /\ pending' = Handled(h, IF Suspends(event)
                                 THEN [pc |-> "getThreadInfo", event |-> event,
                                       overtaken |-> FALSE]
                                 ELSE Idle,
                              event.threadID, st.file # file)
        /\ obs' = [kind |-> "execute", handler |-> h, event |-> event,
                   threadInfo |-> NoThreadInfo, threadAdmins |-> threadAdmins,
                   before |-> file, effects |-> st.effects, threw |-> FALSE,
                   rejected |-> FALSE,
                   suspended |-> Suspends(event), overtaken |-> FALSE]

\* api.getThreadInfo resolves and the handler runs to its return
Resume(h, threadInfo, threadAdmins) ==
    /\ obs = NoObs
    /\ pending[h] # Idle
    /\ LET event == pending[h].event
           st0 == [file |-> file, effects |-> <<>>, granted |-> granted]
           st == IF ThrowsOn(threadInfo) THEN st0
                 ELSE Finish(event, threadInfo.participantIDs, st0, threadAdmins)
       IN  /\ TotalStored(st.file) <= MaxStored
           /\ file' = st.file
           /\ granted' = st.granted
           /\ pending' = Handled(h, Idle, event.threadID, st.file # file)
           /\ obs' = [kind |-> "resume", handler |-> h, event |-> event,
                      threadInfo |-> threadInfo, threadAdmins |-> threadAdmins,
                      before |-> file, effects |-> st.effects,
                      threw |-> ThrowsOn(threadInfo), rejected |-> FALSE,
                      suspended |-> FALSE, overtaken |-> pending[h].overtaken]

\* api.getThreadInfo rejects: the await throws out of the handler
Reject(h) ==
    /\ obs = NoObs
    /\ pending[h] # Idle
    /\ pending' = [pending EXCEPT ![h] = Idle]
    /\ obs' = [kind |-> "resume", handler |-> h, event |-> pending[h].event,
               threadInfo |-> NoThreadInfo, threadAdmins |-> CHOOSE a \in AdminResults : TRUE,
               before |-> file, effects |-> <<>>, threw |-> TRUE,
               rejected |-> TRUE,
               suspended |-> FALSE, overtaken |-> pending[h].overtaken]
    /\ UNCHANGED <<file, granted>>

\* the dispatcher calls onEvent(event, api) of the base class SnoopBotEvent
OnEvent(event) ==
    LET r == onEvent(event)
    IN  /\ obs = NoObs
        /\ obs' = [kind |-> "onEvent", event |-> event, threw |-> r.threw,
                   message |-> r.message, before |-> file, waiting |-> pending]
        /\ UNCHANGED <<file, pending, granted>>

AddStep ==
    \E t \in Threads, u \in Users, c \in CommandLists, a \in AdminResults :
        Add(t, u, c, a)

RemoveStep ==
    \E t \in Threads, u \in Users, c \in CommandLists : Remove(t, u, c)

CheckStep ==
    \E t \in Threads, u \in Users, c \in CommandLists, a \in AdminResults :
        Check(t, u, c, a)

\* one command in flight at a time
ExecuteStep ==
    \E e \in Events, a \in AdminResults : Execute("h1", e, a)

\* a second command may be dispatched while the first waits for getThreadInfo
RaceExecuteStep ==
    \E h \in Handlers, e \in RaceEvents, a \in AdminResults : Execute(h, e, a)

ResumeStep ==
    \E h \in Handlers, i \in ThreadInfos, a \in AdminResults : Resume(h, i, a)

RejectStep == \E h \in Handlers : Reject(h)

OnEventStep == \E e \in EventTypes : OnEvent(e)

\* the store called directly
Next == AddStep \/ RemoveStep \/ CheckStep \/ Return

Spec == Init /\ [][Next]_vars

\* the bot's dispatcher: permission commands, and events for a base handler
CmdNext == ExecuteStep \/ ResumeStep \/ RejectStep \/ OnEventStep \/ Return

CmdSpec == Init /\ [][CmdNext]_vars

\* the same, where control comes back to the event loop and the promise of
\* api.getThreadInfo settles (resolves or rejects) in the end
FairCmdSpec ==
    /\ CmdSpec
    /\ WF_vars(Return)
    /\ WF_vars(ResumeStep \/ RejectStep)

\* the store called by two permission commands in flight together
RaceNext == RaceExecuteStep \/ ResumeStep \/ RejectStep \/ Return

RaceSpec == Init /\ [][RaceNext]_vars

---------------------------------------------------------------------------
(* What the claims speak of *)

\* the user is in the admin set (empty after a failed lookup) or is the botOwner
IsAdminOrOwner(threadAdmins, userID) ==
    \/ ~threadAdmins.hasError /\ userID \in threadAdmins.admins
    \/ userID = threadAdmins.botOwner

\* the user's stored permission set
StoredSet(f, threadID, userID) ==
    {StoredPerms(f, threadID, userID)[i] :
        i \in 1..Len(StoredPerms(f, threadID, userID))}

\* every requested command name is in the user's stored permission set
AllStored(f, threadID, userID, commands) ==
    \A i \in 1..Len(commands) : commands[i] \in StoredSet(f, threadID, userID)

\* the (thread, user, command) triples the document holds
StoredTriples(f) ==
    {x \in Threads \X Users \X (Names \cup {"xyz"}) :
        x[3] \in StoredSet(f, x[1], x[2])}

\* the user is the only one with a record in the thread
OnlyUser(f, threadID, userID) ==
    \A u \in Users : HasRecord(f, threadID, u) => u = userID

IsCheck == obs.kind = "check"
IsAdd == obs.kind = "add"
IsRemove == obs.kind = "remove"
IsCommand == obs.kind \in {"execute", "resume"}

---------------------------------------------------------------------------
(* C1 *)

\* C1, as claimed: userHasPermission returns true iff the user is a thread
\* admin or the bot owner, or every requested command name is in the user's
\* stored permission set (the empty list and a user without a record included).
C1_TrueIffAdminOrAllStored ==
    IsCheck =>
        (obs.ret <=> \/ IsAdminOrOwner(obs.threadAdmins, obs.userID)
                     \/ AllStored(obs.before, obs.threadID, obs.userID, obs.commands))

\* C1, amended: userHasPermission returns true iff the user is a thread admin
\* or the bot owner, or the user has a stored record in the thread and every
\* requested command name is in its permission set.
C1_TrueIffAdminOrRecordHoldsAll ==
    IsCheck =>
        (obs.ret <=> \/ IsAdminOrOwner(obs.threadAdmins, obs.userID)
                     \/ /\ HasRecord(obs.before, obs.threadID, obs.userID)
                        /\ AllStored(obs.before, obs.threadID, obs.userID, obs.commands))

\* C1 witness: a user who is no admin holds one of two requested commands and
\* the check returns false.
C1_HoldsOneOfTwo ==
    /\ IsCheck
    /\ ~IsAdminOrOwner(obs.threadAdmins, obs.userID)
    /\ Len(obs.commands) = 2
    /\ obs.commands[1] \in StoredSet(obs.before, obs.threadID, obs.userID)
    /\ obs.commands[2] \notin StoredSet(obs.before, obs.threadID, obs.userID)
    /\ ~obs.ret

---------------------------------------------------------------------------
(* C4 *)

\* C4: after addPermissionToUserInThread, userHasPermission for the same
\* thread, user and commands (and the same admin lookup) returns true, whether
\* the add call returned true or false.
C4_AddThenCheckIsTrue ==
    IsAdd => userHasPermission(file, obs.threadAdmins, obs.threadID,
                               obs.userID, obs.commands)

\* C4 witness: an add call for a user who is no admin returned false, all the
\* requested commands being held already, and the check returns true.
C4_NoOpAddStillHolds ==
    /\ IsAdd
    /\ ~obs.ret
    /\ Len(obs.commands) > 0
    /\ ~IsAdminOrOwner(obs.threadAdmins, obs.userID)
    /\ userHasPermission(file, obs.threadAdmins, obs.threadID, obs.userID,
                         obs.commands)

---------------------------------------------------------------------------
(* C5 *)

\* C5: removePermissionFromUserInThread with a command list covering all of a
\* user's (non-empty) stored permissions leaves no record for the user, and no
\* record for the thread when the user was its only user.
C5_RemoveAllPrunes ==
    (/\ IsRemove
     /\ StoredPerms(obs.before, obs.threadID, obs.userID) # <<>>
     /\ StoredSet(obs.before, obs.threadID, obs.userID)
            \subseteq {obs.commands[i] : i \in 1..Len(obs.commands)})
    => /\ obs.ret
       /\ ~HasRecord(file, obs.threadID, obs.userID)
       /\ OnlyUser(obs.before, obs.threadID, obs.userID)
            => ~HasThread(file, obs.threadID)

\* C5 witness: the only user of a thread held the same command twice; the
\* command was removed and the thread's record is gone.
C5_DuplicatesPruned ==
    /\ IsRemove
    /\ Len(StoredPerms(obs.before, obs.threadID, obs.userID)) = 2
    /\ Cardinality(StoredSet(obs.before, obs.threadID, obs.userID)) = 1
    /\ StoredSet(obs.before, obs.threadID, obs.userID)
           \subseteq {obs.commands[i] : i \in 1..Len(obs.commands)}
    /\ OnlyUser(obs.before, obs.threadID, obs.userID)
    /\ ~HasThread(file, obs.threadID)

---------------------------------------------------------------------------
(* C6 *)

\* the call removes commands, none of which the user holds
RemovesNeverHeld ==
    /\ IsRemove
    /\ Len(obs.commands) > 0
    /\ \A i \in 1..Len(obs.commands) :
          obs.commands[i] \notin StoredSet(obs.before, obs.threadID, obs.userID)

\* C6, as claimed: for every document, thread and user, removing a command
\* the user never had leaves the user's permissions unchanged and returns true.
C6_RemoveNeverHeldReturnsTrue ==
    RemovesNeverHeld =>
        /\ obs.ret
        /\ StoredPerms(file, obs.threadID, obs.userID)
             = StoredPerms(obs.before, obs.threadID, obs.userID)

\* C6, amended: for a user who has a stored record in the thread, removing a
\* command the user never had leaves the user's permissions (and the whole
\* document) unchanged and returns true; without a record it returns false.
C6_RemoveNeverHeldKeepsRecord ==
    RemovesNeverHeld =>
        /\ obs.ret <=> HasRecord(obs.before, obs.threadID, obs.userID)
        /\ HasRecord(file, obs.threadID, obs.userID)
             <=> HasRecord(obs.before, obs.threadID, obs.userID)
        /\ StoredPerms(file, obs.threadID, obs.userID)
             = StoredPerms(obs.before, obs.threadID, obs.userID)
        /\ getPermissionSettings(file) = getPermissionSettings(obs.before)

\* C6 witness: a user holding a command had another one removed; the call
\* returned true and the held command is still there.
C6_OtherCommandRemoved ==
    /\ RemovesNeverHeld
    /\ StoredPerms(obs.before, obs.threadID, obs.userID) # <<>>
    /\ obs.ret
    /\ StoredPerms(file, obs.threadID, obs.userID)
         = StoredPerms(obs.before, obs.threadID, obs.userID)

---------------------------------------------------------------------------
(* C10 *)

\* C10: when the admin lookup reports an error, userHasPermission equals the
\* stored-grants check alone, whatever else the error result carries.
C10_FailedLookupGrantsNothing ==
    (IsCheck /\ obs.threadAdmins.hasError) =>
        (obs.ret <=> /\ HasRecord(obs.before, obs.threadID, obs.userID)
                     /\ AllStored(obs.before, obs.threadID, obs.userID, obs.commands))

---------------------------------------------------------------------------
(* What the command claims speak of *)

IsGrantOrRevoke == IsCommand /\ obs.event.action \in {"grant", "revoke"}

\* the store mutations and the messages of the code that has just run
CallsOf(effects) == SelectSeq(effects, LAMBDA e : e.type = "call")
SendsOf(effects) == SelectSeq(effects, LAMBDA e : e.type = "send")
LookupsOf(effects) == SelectSeq(effects, LAMBDA e : e.type = "getThreadInfo")

IsWarning(e) == e.type = "send" /\ e.kind \in {"noPerson", "unknown"}

\* no entry of the list is the name of a registered command
NoneRegistered(list) ==
    \A i \in 1..Len(list), j \in 1..Len(Commands) : list[i] # Commands[j].name

---------------------------------------------------------------------------
(* C2 *)

\* C2: no User Record of the persisted document has an empty permissions
\* collection and no Thread Record has an empty or missing users mapping.
C2_NoEmptyRecords ==
    LET permissions == getPermissionSettings(file)
    IN  \A t \in DOMAIN permissions :
            /\ Has(permissions[t], "users")
            /\ DOMAIN permissions[t]["users"] # {}
            /\ \A u \in DOMAIN permissions[t]["users"] :
                  /\ Has(permissions[t]["users"][u], "permissions")
                  /\ Len(permissions[t]["users"][u]["permissions"]) > 0

---------------------------------------------------------------------------
(* C3 *)

\* C3: no administrator-only command name is in the command set a grant or
\* revoke command passes to the store mutation.
C3_NoAdminOnlyPassed ==
    IsGrantOrRevoke =>
        \A i \in 1..Len(obs.effects) :
            obs.effects[i].type = "call" =>
                \A j \in 1..Len(obs.effects[i].commands) :
                    ~Includes(AdminCommands, obs.effects[i].commands[j])

---------------------------------------------------------------------------
(* C7 *)

\* a handler that another command of its thread overtook while it waited has
\* resumed and persisted a mutation of its own
ResumedAfterRace ==
    /\ obs.kind = "resume"
    /\ obs.overtaken
    /\ \E i \in 1..Len(obs.effects) :
          obs.effects[i].type = "call" /\ obs.effects[i].ret

\* C7, as claimed: of two permission commands of one thread handled
\* concurrently, one command's update is lost: the document reflects only one
\* of the two mutations.
C7_RaceLosesUpdate == ResumedAfterRace => StoredTriples(file) # granted

\* C7, amended: however two permission commands of one thread interleave at
\* the thread-info lookup, no update is lost: each store mutation loads,
\* changes and saves the document without suspending, so the document always
\* holds exactly what the persisted mutations add up to.
C7_NoUpdateLost == StoredTriples(file) = granted

\* C7 witness: a grant resumed after another command of its thread had changed
\* the document; its own grant and the other command's are both in the document.
C7_BothUpdatesKept ==
    /\ ResumedAfterRace
    /\ obs.event.action = "grant"
    /\ \E x \in StoredTriples(file) :
          \A i \in 1..Len(obs.effects) :
              obs.effects[i].type = "call" => obs.effects[i].userID # x[2]
    /\ \E i \in 1..Len(obs.effects) :
          /\ obs.effects[i].type = "call" /\ obs.effects[i].ret
          /\ AllStored(file, obs.effects[i].threadID, obs.effects[i].userID,
                       obs.effects[i].commands)

---------------------------------------------------------------------------
(* C8 *)

\* C8: a grant or revoke command whose message has no mentions and no "@all"
\* sends exactly one warning, makes no thread-info lookup and no store
\* mutation, leaves the document unchanged and raises no exception.
C8_NoPersonOnlyWarns ==
    (IsGrantOrRevoke /\ obs.kind = "execute"
       /\ obs.event.mentions = {} /\ ~obs.event.atAll)
    => /\ Len(obs.effects) = 1
       /\ IsWarning(obs.effects[1])
       /\ ~obs.threw
       /\ ~obs.suspended
       /\ pending[obs.handler] = Idle
       /\ file = obs.before

\* C8 witness: a revoke command without mentions or "@all" has sent the
\* no-person warning and nothing else.
C8_RevokeWithoutPerson ==
    /\ obs.kind = "execute"
    /\ obs.event.action = "revoke"
    /\ obs.event.mentions = {} /\ ~obs.event.atAll
    /\ obs.effects = <<Send("noPerson", {}, <<>>)>>

---------------------------------------------------------------------------
(* C9 *)

---------------------------------------------------------------------------
(* C11 *)

\* the users the code that has just run called the store mutation for
TargetsOf(effects) ==
    {CallsOf(effects)[i].userID : i \in 1..Len(CallsOf(effects))}

\* the command names at least one registered command, so it is not turned
\* away as unknown
NamesRegistered(event) == HasCommands(ResolveCommands(event.commandsToGive))

\* C11: for a grant or revoke command (naming a registered command) without
\* mentions whose text contains "@all", the users the store mutation is called
\* for are exactly the participants the thread-info lookup returned; with
\* mentions, they are exactly the mentioned users and no lookup is made.
C11_TargetsAreParticipantsOrMentions ==
    (IsGrantOrRevoke /\ NamesRegistered(obs.event)) =>
        /\ (obs.kind = "resume" /\ ~obs.rejected) =>
               TargetsOf(obs.effects) = obs.threadInfo.participantIDs
        /\ obs.event.mentions # {} =>
               /\ TargetsOf(obs.effects) = obs.event.mentions
               /\ LookupsOf(obs.effects) = <<>>
               /\ ~obs.suspended

---------------------------------------------------------------------------
(* C12 *)

\* the names of the registered commands that are not administrator-only
NonAdminNames ==
    LET open == SelectSeq(Commands, LAMBDA c : ~c.adminOnly)
    IN  [i \in 1..Len(open) |-> open[i].name]

\* the users the command is for: the mentions, or the participants looked up
ResolvedTargets ==
    IF obs.kind = "resume" THEN obs.threadInfo.participantIDs
    ELSE obs.event.mentions

\* the handler has run to its return
Completed == IsCommand /\ ~obs.threw /\ ~obs.suspended

IsGrantAll ==
    /\ IsCommand
    /\ obs.event.action = "grant"
    /\ obs.event.commandsToGive[1] = "all"

---------------------------------------------------------------------------
(* C13 *)

\* no User Record of the document has an empty permissions collection and no
\* Thread Record an empty or missing users mapping
WellFormed(f) ==
    LET permissions == getPermissionSettings(f)
    IN  \A t \in DOMAIN permissions :
            /\ Has(permissions[t], "users")
            /\ DOMAIN permissions[t]["users"] # {}
            /\ \A u \in DOMAIN permissions[t]["users"] :
                  /\ Has(permissions[t]["users"][u], "permissions")
                  /\ Len(permissions[t]["users"][u]["permissions"]) > 0

\* the user holds none of the commands of the list
HoldsNone(f, threadID, userID, commands) ==
    \A i \in 1..Len(commands) : commands[i] \notin StoredSet(f, threadID, userID)

\* {T1: {users: {U1: {permissions: ["meme"]}}}}
MemeForU1InT1 ==
    Put(EmptyObject, "T1",
        Put(EmptyObject, "users",
            Put(EmptyObject, "U1", Put(EmptyObject, "permissions", <<"meme">>))))

\* the document after removePermissionFromUserInThread with the arguments of
\* the add call that has just run
AfterRemovingAgain ==
    getPermissionSettings(
        removePermissionFromUserInThread(file, obs.threadID, obs.userID,
                                         obs.commands).file)

\* C13: from a well-formed document in which a user who is no admin holds
\* none of the commands of a command list, addPermissionToUserInThread with
\* the list followed by removePermissionFromUserInThread with the same list
\* gives back the document; from the empty store, granting meme to U1 in T1
\* gives {T1:{users:{U1:{permissions:[meme]}}}}.
C13_AddThenRemoveRestores ==
    (/\ IsAdd
     /\ WellFormed(obs.before)
     /\ ~IsAdminOrOwner(obs.threadAdmins, obs.userID)
     /\ HoldsNone(obs.before, obs.threadID, obs.userID, obs.commands))
    => /\ AfterRemovingAgain = getPermissionSettings(obs.before)
       /\ (/\ getPermissionSettings(obs.before) = EmptyObject
           /\ obs.threadID = "T1" /\ obs.userID = "U1"
           /\ obs.commands = <<"meme">>)
          => getPermissionSettings(file) = MemeForU1InT1

---------------------------------------------------------------------------
(* C14 *)

\* before the add call the user passed the check for the requested commands:
\* as an admin or the owner, or by holding every one of them
AlreadyHeld ==
    \/ IsAdminOrOwner(obs.threadAdmins, obs.userID)
    \/ /\ HasRecord(obs.before, obs.threadID, obs.userID)
       /\ AllStored(obs.before, obs.threadID, obs.userID, obs.commands)

\* C14: addPermissionToUserInThread returns false and leaves the persisted
\* document as it was whenever userHasPermission was already true for the
\* user and all the requested commands (an admin, the owner, a request for
\* commands all held already); in every other case it returns true and writes
\* the document.
C14_AddSkipsWhenAlreadyHeld ==
    IsAdd =>
        /\ AlreadyHeld <=> userHasPermission(obs.before, obs.threadAdmins,
                                             obs.threadID, obs.userID, obs.commands)
        /\ obs.ret <=> ~AlreadyHeld
        /\ ~obs.ret => file = obs.before
        /\ obs.ret => /\ ~file.empty
                      /\ file # obs.before
                      /\ HasRecord(file, obs.threadID, obs.userID)

\* C14 witness: a user who is no admin and holds two commands is granted one
\* of them; the call returned false and the document is as it was.
C14_SubsetOfHeldSkipped ==
    /\ IsAdd
    /\ ~IsAdminOrOwner(obs.threadAdmins, obs.userID)
    /\ Cardinality(StoredSet(obs.before, obs.threadID, obs.userID)) = 2
    /\ Len(obs.commands) = 1
    /\ ~obs.ret
    /\ file = obs.before

---------------------------------------------------------------------------
(* C15 *)

\* C15: when addPermissionToUserInThread returns true, the user's persisted
\* permissions sequence is the previous one (empty where there was no record)
\* followed by the requested command names in their order, without
\* deduplication: a command held already and requested again is there twice.
C15_AddAppendsInOrder ==
    (IsAdd /\ obs.ret) =>
        StoredPerms(file, obs.threadID, obs.userID)
          = StoredPerms(obs.before, obs.threadID, obs.userID) \o obs.commands

\* C15 witness: a user holding the first of two requested commands, but not
\* the second, was granted both; the first is now stored twice.
C15_HeldCommandStoredTwice ==
    /\ IsAdd /\ obs.ret
    /\ Len(obs.commands) = 2
    /\ StoredPerms(obs.before, obs.threadID, obs.userID) = <<obs.commands[1]>>
    /\ obs.commands[2] # obs.commands[1]
    /\ StoredPerms(file, obs.threadID, obs.userID)
         = <<obs.commands[1], obs.commands[1], obs.commands[2]>>

---------------------------------------------------------------------------
(* C16 *)

\* C16: removePermissionFromUserInThread returns false and writes nothing
\* when the user has no record (no Thread Record, users mapping, User Record
\* or permissions collection); it returns true and writes nothing when the
\* permissions collection is there but empty; the persisted document is as it
\* was in both cases.
C16_RemoveWithoutPermissions ==
    IsRemove =>
        /\ ~HasRecord(obs.before, obs.threadID, obs.userID)
              => ~obs.ret /\ file = obs.before
        /\ (/\ HasRecord(obs.before, obs.threadID, obs.userID)
            /\ StoredPerms(obs.before, obs.threadID, obs.userID) = <<>>)
              => obs.ret /\ file = obs.before

\* C16 witness: a command was removed from a user whose record has an empty
\* permissions collection; the call returned true and the record is still
\* there.
C16_EmptyCollectionKept ==
    /\ IsRemove
    /\ obs.commands # <<>>
    /\ HasRecord(obs.before, obs.threadID, obs.userID)
    /\ StoredPerms(obs.before, obs.threadID, obs.userID) = <<>>
    /\ obs.ret
    /\ HasRecord(file, obs.threadID, obs.userID)

---------------------------------------------------------------------------
(* C17 *)

\* the confirmation message of a grant or revoke for the given users
IsConfirmation(e, targets) ==
    e.type = "send" /\ e.kind = "done" /\ e.mentions = targets

\* one store mutation per target user, then one confirmation naming them all
OncePerTargetThenConfirmation(effects, targets) ==
    /\ Len(effects) = Cardinality(targets) + 1
    /\ \A i \in 1..Cardinality(targets) : effects[i].type = "call"
    /\ TargetsOf(effects) = targets
    /\ IsConfirmation(effects[Len(effects)], targets)

\* a command naming a registered command waits for the thread-info lookup
WaitsForLookup ==
    /\ pending["h1"] # Idle
    /\ NamesRegistered(pending["h1"].event)

\* the lookup of the waiting command was rejected, or the command has sent
\* its confirmation for the participants the lookup returned
LookupRejectedOrConfirmed ==
    /\ obs.kind = "resume"
    /\ obs.handler = "h1"
    /\ \/ obs.rejected
       \/ /\ obs.effects # <<>>
          /\ IsConfirmation(obs.effects[Len(obs.effects)],
                            obs.threadInfo.participantIDs)

\* the part of C17 about a handler that has run to its return
C17_MutationsThenOneConfirmation ==
    (IsGrantOrRevoke /\ Completed /\ ~NoPerson(obs.event)
       /\ NamesRegistered(obs.event))
    => OncePerTargetThenConfirmation(obs.effects, ResolvedTargets)

\* C17: every grant or revoke command that has target users and names a
\* registered command calls the store mutation exactly once per target user,
\* all calls before the outbound message, and then sends exactly one
\* confirmation whose mentions are exactly the target users; and every such
\* command, once the thread-info lookup returns, eventually sends it.
C17_OncePerTargetAndEventuallyConfirmed ==
    /\ []C17_MutationsThenOneConfirmation
    /\ WaitsForLookup ~> LookupRejectedOrConfirmed

---------------------------------------------------------------------------
(* C18 *)

IsOnEvent == obs.kind = "onEvent"

\* C18, as claimed: onEvent of the base event handler is a no-op: called on
\* the base class it completes without raising an error and has no effect.
C18_OnEventIsNoOp ==
    IsOnEvent => ~obs.threw /\ file = obs.before /\ pending = obs.waiting

\* C18, amended: onEvent of the base event handler always fails with the
\* error "SnoopBotEvent::onEvent() is unimplmented" (the promise of the async
\* method is rejected) and has no other effect: a handler has to override it.
C18_OnEventAlwaysThrows ==
    IsOnEvent =>
        /\ obs.threw
        /\ obs.message = Unimplemented
        /\ file = obs.before
        /\ pending = obs.waiting

\* C18 witness: onEvent of the base class was called, and failed, while a
\* permission command waits for its lookup and the document holds grants.
C18_OnEventWhileCommandWaits ==
    /\ IsOnEvent
    /\ obs.threw
    /\ pending["h1"] # Idle
    /\ StoredTriples(file) # {}

---------------------------------------------------------------------------
(* C19 *)

\* the User Record of the document, EmptyObject where there is none
RecordOf(f, threadID, userID) ==
    IF HasRecord(f, threadID, userID)
    THEN getPermissionSettings(f)[threadID]["users"][userID]
    ELSE EmptyObject

\* C19: addPermissionToUserInThread and removePermissionFromUserInThread for
\* a thread and a user leave the record of every other user of the thread and
\* the record of every other thread as they were; outside the user's record
\* the only change is that the thread's record goes when the user was its
\* last user.
C19_OtherRecordsUntouched ==
    (IsAdd \/ IsRemove) =>
        /\ \A t \in Threads \ {obs.threadID} :
              /\ HasThread(file, t) <=> HasThread(obs.before, t)
              /\ HasThread(file, t) =>
                    getPermissionSettings(file)[t]
                      = getPermissionSettings(obs.before)[t]
        /\ \A u \in Users \ {obs.userID} :
              /\ HasRecord(file, obs.threadID, u)
                    <=> HasRecord(obs.before, obs.threadID, u)
              /\ RecordOf(file, obs.threadID, u)
                    = RecordOf(obs.before, obs.threadID, u)
        /\ (HasThread(obs.before, obs.threadID) /\ ~HasThread(file, obs.threadID))
              => /\ IsRemove
                 /\ OnlyUser(obs.before, obs.threadID, obs.userID)

\* C19 witness: the last command of a user was removed, and with it the
\* user's record, while another user of the thread and a user of the other
\* thread hold commands; both still hold them.
C19_NeighboursKeepTheirs ==
    /\ IsRemove /\ obs.ret
    /\ HasRecord(obs.before, obs.threadID, obs.userID)
    /\ ~HasRecord(file, obs.threadID, obs.userID)
    /\ \E u \in Users \ {obs.userID} :
          StoredPerms(file, obs.threadID, u) # <<>>
    /\ \E t \in Threads \ {obs.threadID}, u \in Users :
          StoredPerms(file, t, u) # <<>>

---------------------------------------------------------------------------
(* C20 *)

\* C20: whatever permission commands have been handled from an empty store,
\* every command name stored for any user is the name of a registered
\* command: a grant that lists a registered name together with an
\* unregistered one does not store the unregistered one.
C20_OnlyRegisteredStored ==
    \A x \in StoredTriples(file) :
        \E j \in 1..Len(Commands) : x[3] = Commands[j].name

=============================================================================
